---- MODULE Spec2Model ----
(***************************************************************************)
(* Model of the Vecnopool payment app: the cron-driven payout cycle        *)
(* (trxManager.transferBalances / trxManager.send), the balances and       *)
(* payments tables behind the Database class, and the ledger that receives *)
(* the broadcast transactions.                                             *)
(*                                                                         *)
(* Every await of the TypeScript code is a suspension point: one action    *)
(* of the model runs one invocation from an await to the next one, so the  *)
(* cron callback of a later tick and the external reward writer interleave *)
(* with a cycle exactly where the event loop lets them.                    *)
(*                                                                         *)
(* Spec follows the payout cycles; SpecScheduler follows the top-level     *)
(* script, the wall clock, the cron expression and the progress timer;     *)
(* SpecHours follows the same for the hours-based script src/index.ts;     *)
(* SpecRows follows the snapshot and the batch over every set of rows.     *)
(***************************************************************************)
EXTENDS Integers, Sequences, FiniteSets, TLC

\* ------------------------------------------------------------- bounds
\* Number of cron ticks explored (each tick is one invocation of the callback).
MaxTicks == 2
\* Number of credits the external reward-accounting writer makes.
MaxCredits == 1
\* Largest available_balance a miner's row holds in the initial state.
MaxInitBalance == 1

\* ------------------------------------------------------------- constants
\* The literal the snapshot query excludes (database/index.ts line 31).
PoolId == "pool"
Miners == {"A", "B"}
\* Keys of the balances relation: one row per address.
Addresses == {PoolId} \cup Miners
\* this.address: the address derived from the treasury private key.
TreasuryAddress == "T"
\* Every key a row of the balances relation may have.
RowKeys == Addresses \cup {TreasuryAddress}
\* Physical row order of the balances table (the SELECT has no ORDER BY);
\* a key the table holds no row for is passed over.
RowOrder == <<"A", PoolId, "B", TreasuryAddress>>

Cycles == 1..MaxTicks
\* summary.finalTransactionId when the generator reports none (undefined).
NoTransactionId == <<>>

VARIABLES
  phase,            \* "startup" | "running" | "exited": top-level script position
  rpcConnected,     \* let rpcConnected
  transactionManager, \* TRUE iff transactionManager is non-null
  ticks,            \* cron ticks fired so far; tick n runs invocation n
  credits,          \* credits made so far by the external writer
  balancesTable,    \* balances relation: address -> available_balance
  paymentsTable,    \* payments relation: sequence of inserted rows
  onchain,          \* ledger: address -> total amount received in accepted txs
  credited,         \* address -> total amount ever credited to its balance
  pc,               \* per invocation: the await it is suspended at
  balances,         \* per invocation: const balances (the snapshot)
  payments,         \* per invocation: let payments
  submitted,        \* per invocation: how many outputs of payments were broadcast
  transactionId,    \* per invocation: const transactionId
  idx,              \* per invocation: position of the reset loop in balances
  resetCalls,       \* per invocation: addresses passed to resetBalanceByAddress
  thrown,           \* per invocation: the call that threw, or "none"
  env,              \* what the top-level script finds: process.env, config.json,
                    \* and the node the resolver connects to
  now,              \* wall clock, in minutes since midnight of the start day
  fireTimes,        \* clock readings at which cron invoked the callback
  timerDue,         \* TRUE iff the setInterval callback is due in this minute
  nextTransferMinutes \* const nextTransferMinutes of the last setInterval callback

startupVars == <<phase, rpcConnected, transactionManager>>
storeVars == <<balancesTable, paymentsTable>>
ledgerVars == <<onchain>>
schedulerVars == <<env, now, fireTimes, timerDue, nextTransferMinutes>>
localVars == <<balances, payments, submitted, transactionId, idx,
               resetCalls, thrown>>
vars == <<phase, rpcConnected, transactionManager, ticks, credits,
          balancesTable, paymentsTable, onchain, credited, pc,
          balances, payments, submitted, transactionId, idx,
          resetCalls, thrown,
         env, now, fireTimes, timerDue, nextTransferMinutes>>

\* ------------------------------------------------------------- helpers
RECURSIVE SumAmounts(_)
SumAmounts(outs) ==
  IF outs = <<>> THEN 0 ELSE Head(outs).amount + SumAmounts(Tail(outs))

SeqAddresses(s) == {s[i].address : i \in 1..Len(s)}

\* ------------------------------------------------------------- Database
\* SELECT address, available_balance FROM balances WHERE address != 'pool',
\* mapped to {minerId, address, balance}.
RECURSIVE SelectRows(_, _)
SelectRows(table, order) ==
  IF order = <<>> THEN <<>>
  ELSE LET a == Head(order) IN
       IF a \in DOMAIN table /\ a # PoolId
       THEN <<[minerId |-> a, address |-> a, balance |-> table[a]]>>
              \o SelectRows(table, Tail(order))
       ELSE SelectRows(table, Tail(order))

\* A query whose join returns every row twice.
getAllBalancesDuplicated(table) == SelectRows(table, RowOrder \o RowOrder)

getAllBalancesExcludingPool(table) == SelectRows(table, RowOrder)

\* An UPDATE that lacks the WHERE clause.
resetAllBalances(table, wallet) == [a \in DOMAIN table |-> 0]

\* UPDATE balances SET available_balance = 0 WHERE address = wallet
resetBalanceByAddress(table, wallet) == [table EXCEPT ![wallet] = 0]

\* INSERT INTO payments (address, amount, tx_id, timestamp, notified).
\* No code path of trxManager or of the entrypoints calls it.
recordPayment(table, address, amount, txId) ==
  Append(table, [address |-> address, amount |-> amount, tx_id |-> txId,
                 notified |-> FALSE])

\* ------------------------------------------------------------- Batcher
\* A batcher that applies a minimum-payout threshold (balance > 1).
RECURSIVE BuildPaymentsThreshold(_)
BuildPaymentsThreshold(bals) ==
  IF bals = <<>> THEN <<>>
  ELSE LET r == Head(bals) IN
       IF r.balance > 1
       THEN <<[address |-> r.address, amount |-> r.balance]>>
              \o BuildPaymentsThreshold(Tail(bals))
       ELSE BuildPaymentsThreshold(Tail(bals))

\* A batcher that tests balance >= 0.
RECURSIVE BuildPaymentsNonNegative(_)
BuildPaymentsNonNegative(bals) ==
  IF bals = <<>> THEN <<>>
  ELSE LET r == Head(bals) IN
       IF r.balance >= 0
       THEN <<[address |-> r.address, amount |-> r.balance]>>
              \o BuildPaymentsNonNegative(Tail(bals))
       ELSE BuildPaymentsNonNegative(Tail(bals))

\* The loop of transferBalances lines 37-47.
RECURSIVE BuildPayments(_)
BuildPayments(bals) ==
  IF bals = <<>> THEN <<>>
  ELSE LET r == Head(bals) IN
       IF r.balance > 0
       THEN <<[address |-> r.address, amount |-> r.balance]>>
              \o BuildPayments(Tail(bals))
       ELSE BuildPayments(Tail(bals))

\* ------------------------------------------------------------- startup
\* config.paymentInterval: <<>> when config.json has no such key, <<n>> when
\* it holds the number n.
Undefined == <<>>
\* JavaScript truthiness of a number or undefined (the left side of ||).
Falsy(v) == v = Undefined \/ v[1] = 0

\* const paymentInterval = config.paymentInterval || 30
DefaultPaymentInterval == 30
MinPaymentInterval == 5
MaxPaymentInterval == 1440
EffectiveInterval(configured) ==
  IF Falsy(configured) THEN DefaultPaymentInterval ELSE configured[1]
IntervalValid(interval) ==
  ~(interval < MinPaymentInterval \/ interval > MaxPaymentInterval)
ConfiguredIntervals ==
  {Undefined} \cup {<<n>> : n \in {-1, 0, 4, 5, 30, 45, 1440, 1441}}

\* Everything the top-level script reads before cron.schedule.
Envs ==
  [keySet : BOOLEAN, networkSet : BOOLEAN, dbUrlSet : BOOLEAN,
   configured : ConfiguredIntervals,
   connect : {"connected", "timeout", "error"},
   isSynced : BOOLEAN, hasUtxoIndex : BOOLEAN]

\* An environment the script starts in, and one it exits in.
GoodEnv ==
  [keySet |-> TRUE, networkSet |-> TRUE, dbUrlSet |-> TRUE,
   configured |-> Undefined, connect |-> "connected",
   isSynced |-> TRUE, hasUtxoIndex |-> TRUE]
CycleEnvs == {GoodEnv, [GoodEnv EXCEPT !.connect = "timeout"]}

\* The four checks of lines 28-54 pass.
ConfigOk(e) ==
  /\ e.keySet
  /\ e.networkSet
  /\ e.dbUrlSet
  /\ IntervalValid(EffectiveInterval(e.configured))

\* A startRpcConnection that does not look at hasUtxoIndex.
RpcOkSyncedOnly(e) == e.connect = "connected" /\ e.isSynced

\* startRpcConnection resolves (lines 76-99).
RpcOk(e) == e.connect = "connected" /\ e.isSynced /\ e.hasUtxoIndex

\* const paymentInterval, as the script computes it from config.json.
paymentInterval == EffectiveInterval(env.configured)

\* ------------------------------------------------------------- Init
\* The state when the script starts, but for env and now.
InitProcess ==
  /\ phase = "startup"
  /\ rpcConnected = FALSE
  /\ transactionManager = FALSE
  /\ ticks = 0
  /\ credits = 0
  /\ paymentsTable = <<>>
  /\ onchain = [a \in Addresses |-> 0]
  /\ credited = balancesTable
  /\ pc = [c \in Cycles |-> "idle"]
  /\ balances = [c \in Cycles |-> <<>>]
  /\ payments = [c \in Cycles |-> <<>>]
  /\ submitted = [c \in Cycles |-> 0]
  /\ transactionId = [c \in Cycles |-> NoTransactionId]
  /\ idx = [c \in Cycles |-> 0]
  /\ resetCalls = [c \in Cycles |-> <<>>]
  /\ thrown = [c \in Cycles |-> "none"]
  /\ fireTimes = <<>>
  /\ timerDue = FALSE
  /\ nextTransferMinutes = 0

\* Spec follows the payout cycles; it leaves the wall clock out (a tick may
\* fire at any moment), so now stays where it is.
Init ==
  /\ balancesTable \in {t \in [Addresses -> 0..MaxInitBalance] :
                          t[PoolId] = MaxInitBalance}
  /\ env \in CycleEnvs
  /\ now = 0
  /\ InitProcess

\* A script whose catch of lines 108-111 logs the failed connection and goes
\* on to cron.schedule.
StartupRpcErrorSwallowed ==
  /\ phase = "startup"
  /\ IF ConfigOk(env)
     THEN /\ rpcConnected' = RpcOk(env)
          /\ transactionManager' = RpcOk(env)
          /\ phase' = "running"
     ELSE /\ UNCHANGED <<rpcConnected, transactionManager>>
          /\ phase' = "exited"
  /\ UNCHANGED <<schedulerVars, ticks, credits, storeVars, ledgerVars,
                 credited, pc, localVars>>

\* The top-level script up to cron.schedule: environment and config checks,
\* startRpcConnection, setupTransactionManager.  Any throw ends the process
\* before the scheduler is registered.
Startup ==
  /\ phase = "startup"
  /\ IF ConfigOk(env) /\ RpcOk(env)
     THEN /\ rpcConnected' = TRUE
          /\ transactionManager' = TRUE
          /\ phase' = "running"
     ELSE /\ UNCHANGED <<rpcConnected, transactionManager>>
          /\ phase' = "exited"
  /\ UNCHANGED <<schedulerVars, ticks, credits, storeVars, ledgerVars,
                 credited, pc, localVars>>

\* ------------------------------------------------------------- scheduler
\* The cron.schedule callback up to its first await: tick number c invokes
\* transactionManager.transferBalances(), which suspends at the snapshot query.
Tick(c) ==
  /\ phase = "running"
  /\ c = ticks + 1
  /\ c <= MaxTicks
  /\ ticks' = c
  /\ pc' = [pc EXCEPT ![c] = IF rpcConnected THEN "read" ELSE "returned"]
  /\ UNCHANGED <<startupVars, schedulerVars,
                 credits, storeVars, ledgerVars, credited, localVars>>

\* The external reward-accounting writer credits one unit to an address.
Credit(a) ==
  /\ phase = "running"
  /\ credits < MaxCredits
  /\ credits' = credits + 1
  /\ balancesTable' = [balancesTable EXCEPT ![a] = @ + 1]
  /\ credited' = [credited EXCEPT ![a] = @ + 1]
  /\ UNCHANGED <<startupVars, schedulerVars,
                 ticks, paymentsTable, ledgerVars, pc, localVars>>

\* ------------------------------------------------------------- transferBalances
\* A transferBalances without the payments.length === 0 return of lines 49-53.
ReadSnapshotNoShortCircuit(c) ==
  /\ pc[c] = "read"
  /\ LET snap == getAllBalancesExcludingPool(balancesTable)
         outs == BuildPayments(snap)
     IN /\ balances' = [balances EXCEPT ![c] = snap]
        /\ payments' = [payments EXCEPT ![c] = outs]
        /\ pc' = [pc EXCEPT ![c] = "send"]
  /\ UNCHANGED <<startupVars, schedulerVars,
                 ticks, credits, storeVars, ledgerVars, credited,
                 submitted, transactionId, idx, resetCalls, thrown>>

\* await this.db.getAllBalancesExcludingPool() resolves; the batch is built;
\* an empty batch returns, otherwise send() is entered and suspends inside
\* its try block.
ReadSnapshot(c) ==
  /\ pc[c] = "read"
  /\ LET snap == getAllBalancesExcludingPool(balancesTable)
         outs == BuildPayments(snap)
     IN /\ balances' = [balances EXCEPT ![c] = snap]
        /\ payments' = [payments EXCEPT ![c] = outs]
        /\ pc' = [pc EXCEPT ![c] = IF Len(outs) = 0 THEN "done" ELSE "send"]
  /\ UNCHANGED <<startupVars, schedulerVars,
                 ticks, credits, storeVars, ledgerVars, credited,
                 submitted, transactionId, idx, resetCalls, thrown>>

\* A transferBalances that catches the rejected query and awaits it again.
ReadFailRetried(c) ==
  /\ pc[c] = "read"
  /\ thrown' = [thrown EXCEPT ![c] = "read"]
  /\ UNCHANGED <<startupVars, schedulerVars,
                 ticks, credits, storeVars, ledgerVars, credited,
                 pc, balances, payments, submitted, transactionId, idx,
                 resetCalls>>

\* The snapshot query rejects: transferBalances throws at line 34.
ReadFail(c) ==
  /\ pc[c] = "read"
  /\ thrown' = [thrown EXCEPT ![c] = "read"]
  /\ pc' = [pc EXCEPT ![c] = "done"]
  /\ UNCHANGED <<startupVars, schedulerVars,
                 ticks, credits, storeVars, ledgerVars, credited,
                 balances, payments, submitted, transactionId, idx, resetCalls>>

\* ------------------------------------------------------------- send
\* summary.finalTransactionId of invocation c when the generator reports one.
FinalTransactionId(c) == <<c>>

\* The ledger after it accepted a transaction carrying outs.
RECURSIVE Broadcast(_, _)
Broadcast(chain, outs) ==
  IF outs = <<>> THEN chain
  ELSE Broadcast([chain EXCEPT ![Head(outs).address] = @ + Head(outs).amount],
                 Tail(outs))

\* One turn of the loop of send: the next transaction is signed, submitted
\* and accepted, and the 5-second delay elapses.  createTransactions decides
\* how the outputs are spread over the transactions; they keep their order,
\* so the transaction carries the outputs after the first submitted[c] ones
\* up to some position upto (a transaction that carries none of them leaves the
\* state as it is).  After the last transaction send returns
\* summary.finalTransactionId and transferBalances tests it at line 59.
SubmitTransaction(c) ==
  /\ pc[c] = "send"
  /\ \E upto \in (submitted[c] + 1)..Len(payments[c]) :
       /\ onchain' = Broadcast(onchain,
                               SubSeq(payments[c], submitted[c] + 1, upto))
       /\ submitted' = [submitted EXCEPT ![c] = upto]
       /\ IF upto = Len(payments[c])
          THEN \E id \in {FinalTransactionId(c), NoTransactionId} :
                 /\ transactionId' = [transactionId EXCEPT ![c] = id]
                 /\ pc' = [pc EXCEPT ![c] =
                             IF id # NoTransactionId THEN "reset" ELSE "done"]
          ELSE UNCHANGED <<transactionId, pc>>
  /\ UNCHANGED <<startupVars, schedulerVars,
                 ticks, credits, storeVars, credited, balances,
                 payments, idx, resetCalls, thrown>>

\* A send whose catch swallows the error and returns the final id.
SendFailSwallowed(c) ==
  /\ pc[c] = "send"
  /\ submitted[c] < Len(payments[c])
  /\ thrown' = [thrown EXCEPT ![c] = "send"]
  /\ transactionId' = [transactionId EXCEPT ![c] = FinalTransactionId(c)]
  /\ pc' = [pc EXCEPT ![c] = "reset"]
  /\ UNCHANGED <<startupVars, schedulerVars,
                 ticks, credits, storeVars, ledgerVars, credited,
                 balances, payments, submitted, idx, resetCalls>>

\* A loop that catches the rejected submit itself and goes on with the next
\* transaction.
SendFailContinue(c) ==
  /\ pc[c] = "send"
  /\ submitted[c] < Len(payments[c])
  /\ submitted' = [submitted EXCEPT ![c] = @ + 1]
  /\ UNCHANGED <<startupVars, schedulerVars,
                 ticks, credits, storeVars, ledgerVars, credited,
                 pc, balances, payments, transactionId, idx, resetCalls,
                 thrown>>

\* createTransactions, sign or submit rejects while outputs are still to be
\* broadcast: the catch of send rethrows (line 101) and transferBalances
\* throws at line 56.
SendFail(c) ==
  /\ pc[c] = "send"
  /\ submitted[c] < Len(payments[c])
  /\ thrown' = [thrown EXCEPT ![c] = "send"]
  /\ pc' = [pc EXCEPT ![c] = "done"]
  /\ UNCHANGED <<startupVars, schedulerVars,
                 ticks, credits, storeVars, ledgerVars, credited,
                 balances, payments, submitted, transactionId, idx, resetCalls>>

\* ------------------------------------------------------------- reset loop
\* A reset loop that tests balance >= 0.
NonNegativeAfter(bals, i) == {j \in (i + 1)..Len(bals) : bals[j].balance >= 0}

\* Positions of the snapshot after position i that the loop of lines 60-66
\* stops at (balance > 0).
PositiveAfter(bals, i) == {j \in (i + 1)..Len(bals) : bals[j].balance > 0}
Min(S) == CHOOSE x \in S : \A y \in S : x <= y

\* await this.db.resetBalanceByAddress(address) resolves for the next
\* address of the snapshot with balance > 0; the loop goes on to the next
\* one, or transferBalances returns.
Reset(c) ==
  /\ pc[c] = "reset"
  /\ PositiveAfter(balances[c], idx[c]) # {}
  /\ LET i == Min(PositiveAfter(balances[c], idx[c]))
         address == balances[c][i].address
     IN /\ balancesTable' = resetBalanceByAddress(balancesTable, address)
        /\ resetCalls' = [resetCalls EXCEPT ![c] = Append(@, address)]
        /\ idx' = [idx EXCEPT ![c] = i]
        /\ pc' = [pc EXCEPT ![c] =
                    IF PositiveAfter(balances[c], i) = {} THEN "done"
                    ELSE "reset"]
  /\ UNCHANGED <<startupVars, schedulerVars,
                 ticks, credits, paymentsTable, ledgerVars,
                 credited, balances, payments, submitted, transactionId, thrown>>

\* The UPDATE rejects: nothing around line 63 catches, so transferBalances
\* throws out of the loop.
ResetFail(c) ==
  /\ pc[c] = "reset"
  /\ PositiveAfter(balances[c], idx[c]) # {}
  /\ LET i == Min(PositiveAfter(balances[c], idx[c]))
         address == balances[c][i].address
     IN /\ resetCalls' = [resetCalls EXCEPT ![c] = Append(@, address)]
        /\ idx' = [idx EXCEPT ![c] = i]
  /\ thrown' = [thrown EXCEPT ![c] = "reset"]
  /\ pc' = [pc EXCEPT ![c] = "done"]
  /\ UNCHANGED <<startupVars, schedulerVars,
                 ticks, credits, storeVars, ledgerVars, credited,
                 balances, payments, submitted, transactionId>>

\* A callback without the try/catch of lines 124-130: the rejection of
\* transferBalances is unhandled and ends the process.
ReturnUnhandled(c) ==
  /\ pc[c] = "done"
  /\ pc' = [pc EXCEPT ![c] = "returned"]
  /\ phase' = IF thrown[c] # "none" THEN "exited" ELSE phase
  /\ balances' = [balances EXCEPT ![c] = <<>>]
  /\ payments' = [payments EXCEPT ![c] = <<>>]
  /\ submitted' = [submitted EXCEPT ![c] = 0]
  /\ transactionId' = [transactionId EXCEPT ![c] = NoTransactionId]
  /\ idx' = [idx EXCEPT ![c] = 0]
  /\ resetCalls' = [resetCalls EXCEPT ![c] = <<>>]
  /\ thrown' = [thrown EXCEPT ![c] = "none"]
  /\ UNCHANGED <<rpcConnected, transactionManager, schedulerVars, ticks,
                 credits, storeVars, ledgerVars, credited>>

\* ------------------------------------------------------------- callback end
\* The callback resumes after await transactionManager.transferBalances():
\* the try branch logs completion, the catch branch logs the error; the
\* locals of the invocation are gone.
Return(c) ==
  /\ pc[c] = "done"
  /\ pc' = [pc EXCEPT ![c] = "returned"]
  /\ balances' = [balances EXCEPT ![c] = <<>>]
  /\ payments' = [payments EXCEPT ![c] = <<>>]
  /\ submitted' = [submitted EXCEPT ![c] = 0]
  /\ transactionId' = [transactionId EXCEPT ![c] = NoTransactionId]
  /\ idx' = [idx EXCEPT ![c] = 0]
  /\ resetCalls' = [resetCalls EXCEPT ![c] = <<>>]
  /\ thrown' = [thrown EXCEPT ![c] = "none"]
  /\ UNCHANGED <<startupVars, schedulerVars,
                 ticks, credits, storeVars, ledgerVars, credited>>

\* ------------------------------------------------------------- clock and timers
MinutesPerHour == 60
HoursPerDay == 24
\* now.getMinutes(), now.getHours() of a Date taken at clock reading t.
getMinutes(t) == t % MinutesPerHour
getHours(t) == (t \div MinutesPerHour) % HoursPerDay

\* The expression `0 */${paymentInterval} * * * *`: second 0 of every minute
\* of the hour that is a multiple of the step; hour, day and month are '*'.
CronMatches(t, step) == getMinutes(t) % step = 0

\* Clock readings the process may start at.
StartMinutes == {0, 50, 1439}

\* A minute begins that the cron expression matches: the callback is invoked
\* and suspends at the snapshot query of transferBalances.
CronTick(c) ==
  /\ phase = "running"
  /\ ~timerDue
  /\ c = ticks + 1
  /\ c <= MaxTicks
  /\ CronMatches(now + 1, paymentInterval)
  /\ now' = now + 1
  /\ fireTimes' = Append(fireTimes, now + 1)
  /\ timerDue' = TRUE
  /\ ticks' = c
  /\ pc' = [pc EXCEPT ![c] = IF rpcConnected THEN "read" ELSE "returned"]
  /\ UNCHANGED <<startupVars, env, nextTransferMinutes, credits, storeVars,
                 ledgerVars, credited, localVars>>

\* A minute begins that the cron expression does not match.
MinutePasses ==
  /\ phase = "running"
  /\ ~timerDue
  /\ ticks < MaxTicks
  /\ ~CronMatches(now + 1, paymentInterval)
  /\ now' = now + 1
  /\ timerDue' = TRUE
  /\ UNCHANGED <<startupVars, env, fireTimes, nextTransferMinutes, ticks,
                 credits, storeVars, ledgerVars, credited, pc, localVars>>

\* The setInterval callback of lines 138-146, once in every minute.
Progress ==
  /\ phase = "running"
  /\ timerDue
  /\ LET minutes == getMinutes(now)
         hours == getHours(now)
         totalMinutes == hours * MinutesPerHour + minutes
     IN nextTransferMinutes' =
          paymentInterval - (totalMinutes % paymentInterval)
  /\ timerDue' = FALSE
  /\ UNCHANGED <<startupVars, env, now, fireTimes, ticks, credits, storeVars,
                 ledgerVars, credited, pc, localVars>>

\* ------------------------------------------------------------- hours entrypoint
\* src/index.ts is the same script with paymentInterval counted in hours:
\* const paymentInterval = config.paymentInterval || 2, checked against 1..24.
DefaultPaymentIntervalHours == 2
MinPaymentIntervalHours == 1
MaxPaymentIntervalHours == 24
EffectiveIntervalHours(configured) ==
  IF Falsy(configured) THEN DefaultPaymentIntervalHours ELSE configured[1]
IntervalValidHours(interval) ==
  ~(interval < MinPaymentIntervalHours \/ interval > MaxPaymentIntervalHours)

\* The four checks of src/index.ts lines 28-54 pass.
ConfigOkHours(e) ==
  /\ e.keySet
  /\ e.networkSet
  /\ e.dbUrlSet
  /\ IntervalValidHours(EffectiveIntervalHours(e.configured))

\* const paymentInterval of src/index.ts.
paymentIntervalHours == EffectiveIntervalHours(env.configured)

\* The top-level script of src/index.ts up to cron.schedule.
StartupHours ==
  /\ phase = "startup"
  /\ IF ConfigOkHours(env) /\ RpcOk(env)
     THEN /\ rpcConnected' = TRUE
          /\ transactionManager' = TRUE
          /\ phase' = "running"
     ELSE /\ UNCHANGED <<rpcConnected, transactionManager>>
          /\ phase' = "exited"
  /\ UNCHANGED <<schedulerVars, ticks, credits, storeVars, ledgerVars,
                 credited, pc, localVars>>

\* The step of the expression `*/10 * * * *`.
CronStepMinutes == 10

\* const isPaymentTime, for a Date taken at clock reading t.
isPaymentTime(t) ==
  getMinutes(t) = 0 /\ getHours(t) % paymentIntervalHours = 0

\* Clock readings the process of src/index.ts may start at.
StartMinutesHours == {0, 1170}

\* A minute begins that the expression matches, and it is payment time: the
\* callback calls transferBalances and suspends at the snapshot query.
CronTickHours(c) ==
  /\ phase = "running"
  /\ c = ticks + 1
  /\ c <= MaxTicks
  /\ CronMatches(now + 1, CronStepMinutes)
  /\ isPaymentTime(now + 1)
  /\ now' = now + 1
  /\ fireTimes' = Append(fireTimes, now + 1)
  /\ ticks' = c
  /\ pc' = [pc EXCEPT ![c] = IF rpcConnected THEN "read" ELSE "returned"]
  /\ UNCHANGED <<startupVars, env, timerDue, nextTransferMinutes, credits,
                 storeVars, ledgerVars, credited, localVars>>

\* A minute begins that the expression matches, and it is not payment time:
\* the callback returns at once.
CronIdleHours ==
  /\ phase = "running"
  /\ ticks < MaxTicks
  /\ CronMatches(now + 1, CronStepMinutes)
  /\ ~isPaymentTime(now + 1)
  /\ now' = now + 1
  /\ UNCHANGED <<startupVars, env, fireTimes, timerDue, nextTransferMinutes,
                 ticks, credits, storeVars, ledgerVars, credited, pc,
                 localVars>>

\* A minute begins that the expression does not match.
MinutePassesHours ==
  /\ phase = "running"
  /\ ticks < MaxTicks
  /\ ~CronMatches(now + 1, CronStepMinutes)
  /\ now' = now + 1
  /\ UNCHANGED <<startupVars, env, fireTimes, timerDue, nextTransferMinutes,
                 ticks, credits, storeVars, ledgerVars, credited, pc,
                 localVars>>

\* ------------------------------------------------------------- specification
Next ==
  \/ Startup
  \/ \E c \in Cycles : Tick(c)
  \/ \E a \in Miners : Credit(a)
  \/ \E c \in Cycles : ReadSnapshot(c)
  \/ \E c \in Cycles : ReadFail(c)
  \/ \E c \in Cycles : SubmitTransaction(c)
  \/ \E c \in Cycles : SendFail(c)
  \/ \E c \in Cycles : Reset(c)
  \/ \E c \in Cycles : ResetFail(c)
  \/ \E c \in Cycles : Return(c)

Spec == Init /\ [][Next]_vars

\* SpecScheduler follows the top-level script and the clock: every environment
\* the script may start in, the cron expression and the progress timer.  The
\* store does not answer here, so an invoked callback stays at its first await.
InitScheduler ==
  /\ balancesTable = [a \in Addresses |-> MaxInitBalance]
  /\ env \in Envs
  /\ now \in StartMinutes
  /\ InitProcess

NextScheduler ==
  \/ Startup
  \/ \E c \in Cycles : CronTick(c)
  \/ MinutePasses
  \/ Progress

SpecScheduler == InitScheduler /\ [][NextScheduler]_vars

\* SpecHours follows the top-level script of src/index.ts, the clock and the
\* cron callback with its isPaymentTime test.  The progress timer of that
\* script assigns nothing but its own locals and is left out; the store does
\* not answer here either.
InitHours ==
  /\ balancesTable = [a \in Addresses |-> MaxInitBalance]
  /\ env \in Envs
  /\ now \in StartMinutesHours
  /\ InitProcess

NextHours ==
  \/ StartupHours
  \/ \E c \in Cycles : CronTickHours(c)
  \/ CronIdleHours
  \/ MinutePassesHours

SpecHours == InitHours /\ [][NextHours]_vars

\* SpecRows follows the cycles up to their batch, over every set of rows the
\* balances relation may hold; nothing is sent, so the ledger is left out.
InitRows ==
  /\ balancesTable \in UNION {[D -> 0..MaxInitBalance] : D \in SUBSET RowKeys}
  /\ env \in CycleEnvs
  /\ now = 0
  /\ InitProcess

NextRows ==
  \/ Startup
  \/ \E c \in Cycles : Tick(c)
  \/ \E c \in Cycles : ReadSnapshot(c)
  \/ \E c \in Cycles : ReadFail(c)

SpecRows == InitRows /\ [][NextRows]_vars

TypeOK ==
  /\ phase \in {"startup", "running", "exited"}
  /\ ticks \in 0..MaxTicks
  /\ credits \in 0..MaxCredits
  /\ \A c \in Cycles : pc[c] \in {"idle", "read", "send", "reset", "done",
                                  "returned"}
  /\ env \in Envs
  /\ now \in Nat
  /\ Len(fireTimes) \in {0, ticks}
  /\ timerDue \in BOOLEAN
  /\ nextTransferMinutes \in 0..MaxPaymentInterval

\* ------------------------------------------------------------- properties
Range(s) == {s[i] : i \in 1..Len(s)}

\* Invocation c has read its snapshot and has not finished.
InCycle(c) == pc[c] \in {"send", "reset"}

\* send returned a transaction id that line 59 accepts.
Accepted(c) == transactionId[c] # NoTransactionId

\* Addresses whose UPDATE invocation c has applied.
ResetDone(c) ==
  IF thrown[c] = "reset"
  THEN Range(SubSeq(resetCalls[c], 1, Len(resetCalls[c]) - 1))
  ELSE Range(resetCalls[c])

\* Addresses whose output invocation c has broadcast in an accepted transaction.
BroadcastAddresses(c) == SeqAddresses(SubSeq(payments[c], 1, submitted[c]))

\* Addresses of a snapshot with a strictly positive balance.
PositiveAddresses(bals) ==
  {bals[i].address : i \in {j \in 1..Len(bals) : bals[j].balance > 0}}

\* Sum of the strictly positive balances of a snapshot.
RECURSIVE SumPositive(_)
SumPositive(bals) ==
  IF bals = <<>> THEN 0
  ELSE (IF Head(bals).balance > 0 THEN Head(bals).balance ELSE 0)
         + SumPositive(Tail(bals))

\* The balance a snapshot holds for an address.
SnapshotBalance(bals, a) ==
  LET i == CHOOSE j \in 1..Len(bals) : bals[j].address = a IN bals[i].balance

\* C1 (as claimed): reentrancy guard -- at most one invocation is between its
\* snapshot read and its last reset; a tick that fires during a cycle reads no
\* snapshot.
C1_ReentrancyGuard ==
  \A c1 \in Cycles, c2 \in Cycles : (InCycle(c1) /\ InCycle(c2)) => c1 = c2

\* C2: a cycle whose send threw has made no resetBalanceByAddress call and no
\* recordPayment call, and is over (it makes none afterwards).
C2_SendFailureResetsNothing ==
  \A c \in Cycles :
    thrown[c] = "send" =>
      /\ resetCalls[c] = <<>>
      /\ pc[c] = "done"
      /\ \A j \in 1..Len(paymentsTable) :
           paymentsTable[j].tx_id # FinalTransactionId(c)

\* C2 witness: send threw mid-batch, after a transaction was broadcast.
C2_Witness ==
  \E c \in Cycles : thrown[c] = "send" /\ submitted[c] > 0

\* C3 (as claimed): when a cycle is over, the addresses it has reset are
\* exactly the addresses whose output it broadcast in an accepted transaction.
C3_ResetIffBroadcast ==
  \A c \in Cycles : pc[c] = "done" => ResetDone(c) = BroadcastAddresses(c)

\* C4 (as claimed): after a successful submission and reset loop the payment
\* history holds, for every paid address, a record with the snapshot amount
\* and the returned transaction id.
C4_PaymentRecorded ==
  \A c \in Cycles :
    (pc[c] = "done" /\ Accepted(c) /\ thrown[c] = "none") =>
      \A i \in 1..Len(payments[c]) :
        \E j \in 1..Len(paymentsTable) :
          /\ paymentsTable[j].address = payments[c][i].address
          /\ paymentsTable[j].amount = SnapshotBalance(balances[c], payments[c][i].address)
          /\ paymentsTable[j].tx_id = transactionId[c]

\* C5: in a successful cycle resetBalanceByAddress is called once for each
\* address whose snapshot balance is strictly positive and for no other
\* address; an address with snapshot balance zero is not written.
C5_ResetExactlyPositive ==
  \A c \in Cycles :
    (pc[c] = "done" /\ Accepted(c) /\ thrown[c] = "none") =>
      /\ Range(resetCalls[c]) = PositiveAddresses(balances[c])
      /\ Len(resetCalls[c]) = Cardinality(PositiveAddresses(balances[c]))
      /\ \A i \in 1..Len(balances[c]) :
           balances[c][i].balance = 0 =>
             balances[c][i].address \notin Range(resetCalls[c])

\* C5 witness: a successful cycle whose snapshot held a positive and a zero
\* balance.
C5_Witness ==
  \E c \in Cycles :
    /\ pc[c] = "done" /\ Accepted(c) /\ thrown[c] = "none"
    /\ \E i \in 1..Len(balances[c]) : balances[c][i].balance = 0
    /\ \E i \in 1..Len(balances[c]) : balances[c][i].balance > 0

\* C6 (as claimed): with one cycle and the external writer, no credited
\* amount is lost -- every unit ever credited to an address is still in its
\* balance or was paid to it on-chain.
C6_CreditNotLost ==
  ticks <= 1 =>
    \A a \in Miners : credited[a] <= balancesTable[a] + onchain[a]

\* C7 (as claimed): after a successful submission the cycle resets every
\* address of the batch other than one whose reset failed, and does not fail.
C7_ResetFailureTolerated ==
  \A c \in Cycles :
    (pc[c] = "done" /\ Accepted(c)) =>
      /\ thrown[c] = "none"
      /\ PositiveAddresses(balances[c]) \subseteq Range(resetCalls[c])

\* C8: conservation -- the amounts of the outputs handed to send add up to the
\* sum of the strictly positive snapshot balances, each output carrying
\* exactly its address's snapshot balance.
C8_Conservation ==
  \A c \in Cycles :
    /\ SumAmounts(payments[c]) = SumPositive(balances[c])
    /\ \A i \in 1..Len(payments[c]) :
         payments[c][i].amount = SnapshotBalance(balances[c], payments[c][i].address)
    /\ pc[c] \in {"send", "reset"} => SumAmounts(payments[c]) > 0

\* C8 witness: a batch of two outputs, one of them larger than one unit, is
\* in send.
C8_Witness ==
  \E c \in Cycles :
    /\ pc[c] = "send"
    /\ Len(payments[c]) = 2
    /\ SumAmounts(payments[c]) >= 3

\* C9: no output has amount <= 0, no address with a non-positive snapshot
\* balance is in the batch, and the outputs keep the snapshot's order.
C9_NoNonPositiveOutput ==
  \A c \in Cycles :
    /\ \A i \in 1..Len(payments[c]) : payments[c][i].amount > 0
    /\ \A i \in 1..Len(balances[c]) :
         balances[c][i].balance <= 0 =>
           balances[c][i].address \notin SeqAddresses(payments[c])
    /\ \A i \in 1..Len(payments[c]), j \in 1..Len(payments[c]) :
         i < j =>
           \E k \in 1..Len(balances[c]), l \in 1..Len(balances[c]) :
             /\ k < l
             /\ balances[c][k].address = payments[c][i].address
             /\ balances[c][l].address = payments[c][j].address

\* C9 witness: a snapshot with a zero balance ahead of a positive one was
\* batched.
C9_Witness ==
  \E c \in Cycles :
    /\ Len(payments[c]) = 1
    /\ balances[c][1].balance = 0
    /\ payments[c][1].address = balances[c][Len(balances[c])].address

\* C10: in the batch of one cycle each address appears at most once.
C10_NoDoublePay ==
  \A c \in Cycles :
    \A i \in 1..Len(payments[c]), j \in 1..Len(payments[c]) :
      payments[c][i].address = payments[c][j].address => i = j

\* C10 witness: a batch with two outputs was built.
C10_Witness ==
  \E c \in Cycles : Len(payments[c]) = 2 /\ pc[c] = "reset"

\* Invocation c got its snapshot from the store.
SnapshotRead(c) == pc[c] \in {"send", "reset", "done"} /\ thrown[c] # "read"

\* C11: empty-batch short-circuit -- a cycle whose snapshot holds no strictly
\* positive balance is over right after the read: send is not entered,
\* nothing is broadcast, no reset is called and nothing is thrown.
C11_EmptyBatchShortCircuit ==
  \A c \in Cycles :
    (SnapshotRead(c) /\ SumPositive(balances[c]) = 0) =>
      /\ pc[c] = "done"
      /\ thrown[c] = "none"
      /\ payments[c] = <<>>
      /\ submitted[c] = 0
      /\ transactionId[c] = NoTransactionId
      /\ resetCalls[c] = <<>>

\* C11 witness: a cycle read a snapshot of two rows, both with balance zero.
C11_Witness ==
  \E c \in Cycles :
    /\ SnapshotRead(c)
    /\ Len(balances[c]) = 2
    /\ \A i \in 1..Len(balances[c]) : balances[c][i].balance = 0

\* C13: a cycle whose snapshot query failed is over: it holds no snapshot and
\* no batch, has broadcast nothing, has called no reset, and does not read
\* again.
C13_ReadFailureAborts ==
  \A c \in Cycles :
    thrown[c] = "read" =>
      /\ pc[c] = "done"
      /\ balances[c] = <<>>
      /\ payments[c] = <<>>
      /\ submitted[c] = 0
      /\ transactionId[c] = NoTransactionId
      /\ resetCalls[c] = <<>>

\* C13 witness: the snapshot query failed while a miner had a payable balance.
C13_Witness ==
  \E c \in Cycles :
    /\ thrown[c] = "read"
    /\ \E a \in Miners : balancesTable[a] > 0

\* The scheduler is alive: the process runs, and the next tick can fire.
SchedulerAlive ==
  /\ phase = "running"
  /\ rpcConnected
  /\ ticks < MaxTicks => ENABLED Tick(ticks + 1)

\* A failed cycle only ends: it goes from "done" to "returned" and stays there.
FailedCycleEnds ==
  \A c \in Cycles :
    /\ pc[c] = "done" => pc'[c] \in {"done", "returned"}
    /\ pc[c] = "returned" => pc'[c] = "returned"

\* A cycle that reads gets the rows of the store as they are at that moment.
FreshSnapshot ==
  \A c \in Cycles :
    (pc[c] = "read" /\ pc'[c] # "read" /\ thrown'[c] = "none") =>
      balances'[c] = getAllBalancesExcludingPool(balancesTable)

\* C12: an error thrown inside a cycle ends that cycle only -- once a tick has
\* fired the scheduler stays alive whatever the cycles throw, a cycle that
\* threw is at its end and is never restarted, and each tick's cycle reads
\* the store anew.
C12_ErrorsDoNotStopScheduler ==
  /\ [](ticks >= 1 => SchedulerAlive)
  /\ [](\A c \in Cycles : thrown[c] # "none" => pc[c] = "done")
  /\ [](\A c \in Cycles : pc[c] # "idle" <=> c <= ticks)
  /\ [][FailedCycleEnds /\ FreshSnapshot]_vars

\* C12 witness: cycle 1 broadcast the output of A, failed before the output
\* of B and returned; cycle 2 has read a snapshot that holds both again.
C12_Witness ==
  /\ pc[1] = "returned"
  /\ credits = 0
  /\ onchain["A"] = 1
  /\ onchain["B"] = 0
  /\ credited["B"] = 1
  /\ pc[2] = "send"
  /\ submitted[2] = 0
  /\ Len(payments[2]) = 2

\* Reset calls of cycle c that the store carried out (the last one did not
\* when the cycle threw in the reset loop).
CompletedResets(c) ==
  IF thrown[c] = "reset"
  THEN SubSeq(resetCalls[c], 1, Len(resetCalls[c]) - 1)
  ELSE resetCalls[c]

\* Addresses some running cycle has reset.
ResetAddresses == UNION {Range(CompletedResets(c)) : c \in Cycles}

\* C15: the reset is idempotent -- on any table the store can hold, resetting
\* an address leaves that row at zero (also when it was zero), leaves every
\* other row as it was, and a second reset changes nothing more; as long as
\* nothing was credited, the rows the cycles have reset are zero and the
\* rows they have not reset are untouched.
C15_ResetIdempotent ==
  /\ \A a \in Addresses :
       LET once == resetBalanceByAddress(balancesTable, a)
       IN /\ once[a] = 0
          /\ \A b \in Addresses \ {a} : once[b] = balancesTable[b]
          /\ balancesTable[a] = 0 => once = balancesTable
          /\ resetBalanceByAddress(once, a) = once
  /\ (credits = 0 /\ \A c \in Cycles : pc[c] # "returned") =>
       \A a \in Addresses :
         balancesTable[a] = IF a \in ResetAddresses THEN 0 ELSE credited[a]

\* C15 witness: two cycles have each reset A, the second on a zero balance,
\* and B still holds its balance.
C15_Witness ==
  /\ resetCalls[1] = <<"A">>
  /\ resetCalls[2] = <<"A">>
  /\ credits = 0
  /\ balancesTable["A"] = 0
  /\ balancesTable["B"] = 1

\* C17: send broadcasts the batch in order, one output after the other --
\* the outputs broadcast are a prefix of the batch; a transaction id is
\* returned only when the whole batch was broadcast; a failure leaves the
\* rest of the batch off the chain and ends the cycle.
C17_SequentialBroadcast ==
  /\ \A c \in Cycles :
       /\ submitted[c] \in 0..Len(payments[c])
       /\ transactionId[c] # NoTransactionId =>
            submitted[c] = Len(payments[c])
       /\ pc[c] = "reset" => submitted[c] = Len(payments[c])
       /\ thrown[c] = "send" =>
            submitted[c] < Len(payments[c]) /\ pc[c] = "done"
  /\ ticks = 1 =>
       \A i \in 1..Len(payments[1]) :
         onchain[payments[1][i].address] =
           IF i <= submitted[1] THEN payments[1][i].amount ELSE 0

\* C17 witness: the first of two outputs was broadcast, then send failed.
C17_Witness ==
  /\ ticks = 1
  /\ thrown[1] = "send"
  /\ submitted[1] = 1
  /\ Len(payments[1]) = 2

\* C14: consecutive triggers of the callback are exactly paymentInterval
\* minutes apart.
C14_FixedCadence ==
  \A i \in 1..(Len(fireTimes) - 1) :
    fireTimes[i + 1] - fireTimes[i] = paymentInterval

\* What the fail-fast checks of the script look at is missing or bad.
StartupBlocked ==
  \/ ~env.keySet
  \/ ~env.dbUrlSet
  \/ ~env.networkSet
  \/ env.connect # "connected"
  \/ ~env.isSynced
  \/ ~env.hasUtxoIndex

\* C16: fail-fast startup -- with the key, the connection string or the
\* network id missing, or a node that does not connect, is not synced or has
\* no UTXO index, the process never gets to run: it holds no connection and
\* no transaction manager, cron never fires and no cycle is started.
C16_FailFastStartup ==
  StartupBlocked =>
    /\ phase \in {"startup", "exited"}
    /\ ~rpcConnected
    /\ ~transactionManager
    /\ ticks = 0
    /\ fireTimes = <<>>
    /\ \A c \in Cycles : pc[c] = "idle"

\* C16 witness: the process has exited on a synced node without UTXO index.
C16_Witness ==
  /\ phase = "exited"
  /\ env = [GoodEnv EXCEPT !.hasUtxoIndex = FALSE]

\* Minutes from clock reading t to the next minute the expression matches.
MinutesToNextFire(t, step) ==
  Min({d \in 1..MinutesPerHour : CronMatches(t + d, step)})

\* The setInterval callback changes nothing but its own reading.
ProgressObservesOnly ==
  (timerDue /\ ~timerDue') =>
    UNCHANGED <<startupVars, env, now, fireTimes, ticks, credits, storeVars,
                ledgerVars, credited, pc, localVars>>

\* C18: the minutes the progress callback reports in a minute are the minutes
\* until cron invokes the callback next, and reporting changes nothing else.
C18_ProgressCorrect ==
  /\ []((phase = "running" /\ ~timerDue /\ nextTransferMinutes # 0) =>
          nextTransferMinutes = MinutesToNextFire(now, paymentInterval))
  /\ [][ProgressObservesOnly]_vars

\* C19: a process that runs has the default interval when none is configured,
\* and else the configured one, which lies in 5..1440.
C19_CadenceValidated ==
  phase = "running" =>
    IF env.configured = Undefined
    THEN paymentInterval = DefaultPaymentInterval
    ELSE /\ paymentInterval = env.configured[1]
         /\ env.configured[1] \in MinPaymentInterval..MaxPaymentInterval

\* C20: the treasury address is in no snapshot and in no batch, whatever
\* rows the balances relation holds.
C20_SnapshotExcludesTreasury ==
  \A c \in Cycles :
    /\ TreasuryAddress \notin SeqAddresses(balances[c])
    /\ TreasuryAddress \notin SeqAddresses(payments[c])

\* C22: no overpayment across cycles -- whatever ticks, credits and failures
\* happen, no address has received more on-chain than was ever credited to
\* its balance.
C22_NoOverpayment ==
  \A a \in Addresses : onchain[a] <= credited[a]

\* C23: readiness -- a process whose scheduler is registered holds the
\* connection flag and a transaction manager, so every tick that has run has
\* started a cycle and none has taken the branch that skips the transfer.
C23_Readiness ==
  /\ (phase = "running" \/ ticks >= 1 \/ fireTimes # <<>>) =>
       rpcConnected /\ transactionManager
  /\ \A c \in Cycles :
       /\ c <= ticks => pc[c] = "read"
       /\ pc[c] # "returned"

\* C23 witness: cron has invoked the callback twice and both invocations
\* are inside transferBalances.
C23_Witness ==
  /\ Len(fireTimes) = 2
  /\ pc[1] = "read"
  /\ pc[2] = "read"
  /\ rpcConnected
  /\ transactionManager

\* C21: in the hours-based entrypoint every trigger of the payout cycle is
\* at minute 0 of an hour, and consecutive triggers are exactly
\* paymentInterval hours apart, midnight included.
C21_HourlyCadence ==
  /\ \A i \in 1..Len(fireTimes) : getMinutes(fireTimes[i]) = 0
  /\ \A i \in 1..(Len(fireTimes) - 1) :
       fireTimes[i + 1] - fireTimes[i] = paymentIntervalHours * MinutesPerHour

====
